---- MODULE Spec2Model ----
(***************************************************************************)
(* A model of async_scraper.py: the sequential batch loop of               *)
(* process_excel_file, the per-URL session life cycle and reveal sequence  *)
(* of extract_product_data, and the parsing of a page snapshot into        *)
(* output rows (extract_fitment_data, field lists, allow-list, fan-out).   *)
(*                                                                         *)
(* Texts are sequences of tokens (a token is a string: " " is whitespace,  *)
(* ":" a colon, "$" a dollar sign, "1".."9" digits, anything else a word), *)
(* so that strip(), replace(':', '') and the label tests are computed.     *)
(* A dict is a function from keys (texts) to values (texts).               *)
(***************************************************************************)
EXTENDS Integers, Sequences, FiniteSets, TLC

\* ---------------------------------------------------------------- bounds

\* Longest input table of the run specification.
MaxTableRows == 2

\* Longest fitment table of the parsing specification.
MaxFitRows == 2

\* Longest field list of the parsing specification.
MaxItems == 3

\* Rows of the input table of the checkpoint specification.
BatchRows == 12

\* Checkpoint cadence of process_excel_file ("success_count % 10").
SaveEvery == 10

\* Number of lazy-load scroll steps ("for i in range(8)").
ScrollSteps == 8

\* ----------------------------------------------------------------- texts

\* An optional element or text: None, or Some(x); Get(o) is the x of Some(x).
None == <<>>

Some(x) == <<x>>

Get(o) == o[1]

\* The missing value pandas gives an empty spreadsheet cell (pd.isna).
NaN == <<"NaN">>

EmptyText == <<>>

\* A one-word text.
T(w) == <<w>>

IsSpace(tok) == tok = " "

Digits == {"1", "2", "3", "4", "5", "6", "7", "8", "9", "0"}

RECURSIVE LStrip(_)
LStrip(t) == IF t # <<>> /\ IsSpace(Head(t)) THEN LStrip(Tail(t)) ELSE t

RECURSIVE RStrip(_)
RStrip(t) ==
    IF t # <<>> /\ IsSpace(t[Len(t)]) THEN RStrip(SubSeq(t, 1, Len(t) - 1)) ELSE t

\* str.strip()
Strip(t) == RStrip(LStrip(t))

\* str.replace(':', '')
RemoveColons(t) == SelectSeq(t, LAMBDA tok : tok # ":")

\* label.startswith('$')
StartsWithDollar(t) == t # <<>> /\ Head(t) = "$"

\* re.match(r'^\d+$', label)
AllDigits(t) == t # <<>> /\ \A i \in 1..Len(t) : t[i] \in Digits

\* str(n) for the occurrence counters that arise
NumText(n) == CASE n = 2 -> "2" [] n = 3 -> "3" [] n = 4 -> "4" [] OTHER -> "n"

\* ----------------------------------------------------------------- dicts

EmptyDict == [k \in {} |-> EmptyText]

\* d[k] = v
Put(d, k, v) == [x \in (DOMAIN d) \cup {k} |-> IF x = k THEN v ELSE d[x]]

\* d.update(e)
Update(d, e) == [x \in (DOMAIN d) \cup (DOMAIN e) |-> IF x \in DOMAIN e THEN e[x] ELSE d[x]]

\* ------------------------------------------------- extract_fitment_data

\* "td.text.strip() if td and td.text else ''": a missing cell (None) and a
\* cell without text both give the empty string.
CellText(td) == IF td # None /\ Get(td) # EmptyText THEN Strip(Get(td)) ELSE EmptyText

KYear == T("Year")

KMake == T("Make")

KModel == T("Model")

KTrim == T("Body & Trim")

KEngine == T("Engine & Transmission")

FitmentKeys == {KYear, KMake, KModel, KTrim, KEngine}

\* The dict built for one retained table row.
Fitment(row) ==
    (KYear :> CellText(row.year)) @@ (KMake :> CellText(row.make))
    @@ (KModel :> CellText(row.model)) @@ (KTrim :> CellText(row.trim))
    @@ (KEngine :> CellText(row.engine))

\* RowIsValid without the test of the model text.
RowIsValid_ForgetsModel(row) ==
    /\ CellText(row.year) # EmptyText
    /\ CellText(row.make) # EmptyText

\* "if year_text and make_text and model_text"
RowIsValid(row) ==
    /\ CellText(row.year) # EmptyText
    /\ CellText(row.make) # EmptyText
    /\ CellText(row.model) # EmptyText

\* The rows iterated: those of tbody.fitment-table-body when the table has
\* one, else every tr.fitment-row below the table.
FitmentRowsOf(table) == IF table.body # None THEN Get(table.body) ELSE table.other

RECURSIVE CollectFitments(_)
CollectFitments(rows) ==
    IF rows = <<>> THEN <<>>
    ELSE IF RowIsValid(Head(rows))
         THEN <<Fitment(Head(rows))>> \o CollectFitments(Tail(rows))
         ELSE CollectFitments(Tail(rows))

extract_fitment_data(soup) ==
    IF soup.table = None THEN <<>> ELSE CollectFitments(FitmentRowsOf(Get(soup.table)))

\* ------------------------------------------- product fields of a snapshot

KTitle == T("Product Title")

KSubtitle == T("Product Subtitle")

KManufacturer == T("Manufacturer Info")

KDescription == T("Description")

KNotes == T("Notes")

KMSRP == T("MSRP")

KSalePrice == T("Sale Price")

allowed_keys ==
    { KTitle, KSubtitle, KManufacturer, T("SKU"), T("Other Names"), KDescription,
      <<"Description", " ", "2">>, T("Replaces"), KMSRP, T("Discount"), KSalePrice,
      T("Condition"), T("Install Time"), T("Applications"), KNotes }

\* "elem.text.strip() if elem else ''"
TextOrEmpty(elem) == IF elem # None THEN Strip(Get(elem)) ELSE EmptyText

\* label_elem.text.strip().replace(':', '').strip()
LabelOf(item) == Strip(RemoveColons(Strip(Get(item.label))))

\* The two "continue" tests of the field-list loop.
ItemIsSkipped(item) ==
    \/ item.label = None
    \/ item.value = None
    \/ LabelOf(item) = EmptyText
    \/ StartsWithDollar(LabelOf(item))
    \/ AllDigits(LabelOf(item))

\* FieldName without the occurrence suffix: a repeated label overwrites.
FieldName_NoSuffix(label, tracker) == label

\* The key one list item is stored under, given the field_tracker so far.
FieldName(label, tracker) ==
    IF label \in DOMAIN tracker
    THEN label \o <<" ", NumText(tracker[label] + 1)>>
    ELSE label

\* The loop over every li of every ul.field-list, in document order;
\* st = [data |-> dict, tracker |-> field_tracker].
RECURSIVE FieldListLoop(_, _)
FieldListLoop(items, st) ==
    IF items = <<>> THEN st
    ELSE LET item == Head(items) IN
         IF ItemIsSkipped(item) THEN FieldListLoop(Tail(items), st)
         ELSE LET label == LabelOf(item)
                  count == IF label \in DOMAIN st.tracker
                           THEN st.tracker[label] + 1 ELSE 1
              IN FieldListLoop(Tail(items),
                    [data |-> Put(st.data, FieldName(label, st.tracker), Strip(Get(item.value))),
                     tracker |-> Put(st.tracker, label, count)])

\* ' | '.join(notes_list)
RECURSIVE JoinNotes(_)
JoinNotes(notes) ==
    IF Len(notes) = 1 THEN Strip(Head(notes))
    ELSE Strip(Head(notes)) \o <<" | ">> \o JoinNotes(Tail(notes))

\* The dict called data, in the order the code fills it.
ProductData(soup) ==
    LET d0 == (KTitle :> TextOrEmpty(soup.title))
              @@ (KSubtitle :> TextOrEmpty(soup.subtitle))
              @@ (KManufacturer :>
                    IF soup.manufacturer THEN T("Genuine Mopar Parts") ELSE EmptyText)
        d1 == FieldListLoop(soup.items, [data |-> d0, tracker |-> EmptyDict]).data
        d2 == IF soup.description # None
              THEN Put(d1, KDescription, Strip(Get(soup.description))) ELSE d1
        d3 == IF soup.notes # <<>> THEN Put(d2, KNotes, JoinNotes(soup.notes)) ELSE d2
        d4 == IF soup.msrp # None THEN Put(d3, KMSRP, Strip(Get(soup.msrp))) ELSE d3
        d5 == IF soup.sale # None THEN Put(d4, KSalePrice, Strip(Get(soup.sale))) ELSE d4
    IN d5

\* {k: data[k] for k in allowed_keys if k in data}
FilterAllowed(data) == [k \in (DOMAIN data) \cap allowed_keys |-> data[k]]

PlaceholderFitment == [k \in FitmentKeys |-> EmptyText]

\* FanOut without its else branch: no row when there is no fitment.
FanOut_NoPlaceholder(filtered_data, fitments) ==
    [i \in 1..Len(fitments) |-> Update(filtered_data, fitments[i])]

\* FanOut with the placeholder row appended whatever the fitments are.
FanOut_AlwaysPlaceholder(filtered_data, fitments) ==
    [i \in 1..Len(fitments) |-> Update(filtered_data, fitments[i])]
    \o <<Update(filtered_data, PlaceholderFitment)>>

\* "Create a row for each fitment": one row per fitment, else one placeholder.
FanOut(filtered_data, fitments) ==
    IF fitments # <<>>
    THEN [i \in 1..Len(fitments) |-> Update(filtered_data, fitments[i])]
    ELSE <<Update(filtered_data, PlaceholderFitment)>>

\* The rows extract_product_data returns for a snapshot.
ParsePage(soup) == FanOut(FilterAllowed(ProductData(soup)), extract_fitment_data(soup))

\* ------------------------------------------------ merge of the input row

\* MergeColumns without the "orig_col not in product_row" test.
MergeColumns_Overwrite(product_row, cols, row) ==
    [k \in (DOMAIN product_row) \cup {cols[i] : i \in 1..Len(cols)} |->
        IF k \in DOMAIN row THEN row[k] ELSE product_row[k]]

\* "for orig_col in original_columns: if orig_col not in product_row and
\*  orig_col in row: product_row[orig_col] = row[orig_col]"
RECURSIVE MergeColumns(_, _, _)
MergeColumns(product_row, cols, row) ==
    IF cols = <<>> THEN product_row
    ELSE LET c == Head(cols)
             next == IF c \notin DOMAIN product_row /\ c \in DOMAIN row
                     THEN Put(product_row, c, row[c]) ELSE product_row
         IN MergeColumns(next, Tail(cols), row)

MergeRows(product_rows, cols, row) ==
    [i \in 1..Len(product_rows) |-> MergeColumns(product_rows[i], cols, row)]

\* --------------------------------------------------------------- inputs

URLCol == T("product-image-link href")

FullColumns == <<URLCol, T("sku"), T("SKU"), KYear>>

\* An input row: its URL cell, a column no page has ("sku"), and two columns
\* whose names collide with extracted keys ("SKU", "Year").
InputRow(u, s) ==
    (URLCol :> u) @@ (T("sku") :> s) @@ (T("SKU") :> T("in-SKU")) @@ (KYear :> T("in-Year"))

InputRowKinds ==
    { InputRow(NaN, T("A")), InputRow(EmptyText, T("A")),
      InputRow(T("u1"), T("A")), InputRow(T("u2"), T("B")) }

SeqsUpTo(S, n) == UNION { [1..k -> S] : k \in 0..n }

\* The spreadsheets of the run specification: every table of at most
\* MaxTableRows rows with the url column, and one table without it.
Sheets ==
    { [cols |-> FullColumns, rows |-> t] : t \in SeqsUpTo(InputRowKinds, MaxTableRows) }
    \cup { [cols |-> <<T("sku")>>, rows |-> <<(T("sku") :> T("A"))>>] }

\* A fitment-table row of a page: five optional cells.
TR(y, m, mo, t, e) == [year |-> y, make |-> m, model |-> mo, trim |-> t, engine |-> e]

Item(l, v) == [label |-> l, value |-> v]

RowA == TR(Some(<<" ", "2020", " ">>), Some(T("Jeep")), Some(T("Wrangler")),
           Some(T("Sport")), Some(T("3.6L")))

RowB == TR(Some(T("2021")), Some(T("Ram")), Some(T("1500")), None, Some(EmptyText))

RowNoMake == TR(Some(T("2019")), None, Some(T("Durango")), Some(T("GT")), None)

BasePage ==
    [ title |-> Some(<<" ", "Wheel", " ">>), subtitle |-> None, manufacturer |-> TRUE,
      items |-> <<Item(Some(<<"SKU", ":">>), Some(T("ABC")))>>,
      description |-> None, notes |-> <<>>, msrp |-> Some(T("$10")), sale |-> None,
      table |-> None ]

\* The page snapshots a URL of the run specification can render to.
RunPages ==
    { BasePage,
      [BasePage EXCEPT !.table = Some([body |-> Some(<<RowA, RowNoMake, RowB>>),
                                       other |-> <<RowA>>])],
      [BasePage EXCEPT !.table = Some([body |-> None, other |-> <<RowB>>]),
                       !.items = <<Item(Some(T("SKU")), Some(T("ABC"))),
                                   Item(Some(<<"SKU", ":">>), Some(T("XYZ")))>>],
      [BasePage EXCEPT !.table = Some([body |-> Some(<<RowNoMake>>), other |-> <<>>]),
                       !.title = None, !.notes = <<T("n1"), T("n2")>>] }

\* ------------------------------------ inputs of the parsing specification

\* Table rows built from cells that are missing, empty, blank or padded.
GenRows ==
    { TR(y, m, mo, te[1], te[2]) :
        y \in {None, Some(<<" ">>), Some(<<" ", "2020", " ">>)},
        m \in {None, Some(T("Jeep"))},
        mo \in {Some(EmptyText), Some(T("Wrangler"))},
        te \in {<<None, None>>, <<Some(<<" ", "Sport">>), Some(EmptyText)>>} }

\* No table; a table with a tbody.fitment-table-body (and a row outside it);
\* a table without one.
GenTables ==
    {None}
    \cup { Some([body |-> Some(rs), other |-> <<RowA>> \o rs]) :
             rs \in SeqsUpTo(GenRows, MaxFitRows) }
    \cup { Some([body |-> None, other |-> rs]) : rs \in SeqsUpTo(GenRows, MaxFitRows) }

\* The value text of the j-th list item: padded, and different for every j.
ItemValueAt(j) ==
    <<" ", (CASE j = 1 -> "v1" [] j = 2 -> "v2" [] j = 3 -> "v3" [] j = 4 -> "v4"
              [] OTHER -> "v5"), " ">>

\* Kinds of list item: its label element and whether it has a value element.
ItemKinds ==
    { [label |-> l, hasValue |-> TRUE] :
        l \in { Some(<<"SKU", ":">>), Some(<<" ", "SKU">>), Some(T("Description")),
                Some(<<"Description", " ", "2">>), Some(T("MSRP")), Some(T("Color")),
                Some(<<"$", "5">>), Some(<<"1", "2">>), Some(<<":", " ">>), None } }
    \cup { [label |-> Some(T("SKU")), hasValue |-> FALSE] }

GenItemLists ==
    UNION { { [j \in 1..k |-> Item(f[j].label,
                                   IF f[j].hasValue THEN Some(ItemValueAt(j)) ELSE None)] :
                f \in [1..k -> ItemKinds] } : k \in 0..MaxItems }

\* The snapshots of the parsing specification: every table on the base page,
\* and every field list with and without a description block and an MSRP.
ParsePages ==
    { [BasePage EXCEPT !.table = t] : t \in GenTables }
    \cup { [BasePage EXCEPT !.items = il, !.description = d, !.msrp = m] :
             il \in GenItemLists, d \in {None, Some(<<"desc", " ">>)},
             m \in {None, Some(T("$10"))} }

\* ---------------------------------------------------------------- state

VARIABLES
    sheet,            \* the spreadsheet read: [cols, rows]
    site,             \* the snapshots a product page of this run can render to
    pc,               \* position in process_excel_file / extract_product_data
    idx,              \* loop index of process_excel_file (0-based)
    all_rows,         \* accumulated output rows
    success_count,
    processed_count,
    driver,           \* extract_product_data: "driver is not None"
    profile_path,     \* extract_product_data: "profile_path is not None"
    product_rows,     \* the value extract_product_data returns: None or Some(rows)
    scroll_i,         \* scroll steps done in "for i in range(8)"
    soup,             \* the parsed snapshot: None or Some(page)
    fitments,         \* extract_product_data: the list extract_fitment_data returned
    browser_up,       \* the browser process started by this call is alive
    profile_dir,      \* the profile directory made by this call is on disk
    browsers,         \* browser processes of this run that are alive
    profiles,         \* profile directories of this run that are on disk
    file,             \* the output file: None or Some(rows last written)
    failedAt,         \* this call: the stage whose exception reached "except Exception"
    swallowed,        \* this call: reveal-stage failures caught in place
    quits,            \* this call: executions of driver.quit()
    initFailed,       \* some call of this run could not open its session
    progress_writes,  \* executions of the in-loop to_excel
    final_writes,     \* executions of the final to_excel
    slept,            \* loop indices after which the rate-limit sleep ran
    attempted,        \* loop indices passed to extract_product_data, in order
    stages            \* this call: the steps of the try block attempted, in order

input == <<sheet, site>>

batch == <<idx, all_rows, success_count, processed_count>>

call == <<driver, profile_path, product_rows, scroll_i, soup, fitments>>

world == <<browser_up, profile_dir, browsers, profiles, file>>

hist == <<failedAt, swallowed, quits, initFailed, progress_writes, final_writes, slept,
          attempted, stages>>

vars == <<sheet, site, pc, idx, all_rows, success_count, processed_count, driver,
          profile_path, product_rows, scroll_i, soup, fitments, browser_up, profile_dir, browsers,
          profiles, file, failedAt, swallowed, quits, initFailed, progress_writes,
          final_writes, slept, attempted, stages>>

total_rows == Len(sheet.rows)

original_columns == sheet.cols

\* The input row of the current iteration, and its url cell.
row == sheet.rows[idx + 1]

url == row[URLCol]

InitCommon ==
    /\ pc = "read_excel"
    /\ idx = 0
    /\ all_rows = <<>>
    /\ success_count = 0
    /\ processed_count = 0
    /\ driver = FALSE
    /\ profile_path = FALSE
    /\ product_rows = None
    /\ scroll_i = 0
    /\ soup = None
    /\ fitments = <<>>
    /\ browser_up = FALSE
    /\ profile_dir = FALSE
    /\ browsers = 0
    /\ profiles = 0
    /\ file = None
    /\ failedAt = "none"
    /\ swallowed = 0
    /\ quits = 0
    /\ initFailed = FALSE
    /\ progress_writes = 0
    /\ final_writes = 0
    /\ slept = {}
    /\ attempted = <<>>
    /\ stages = <<>>

Init ==
    /\ sheet \in Sheets
    /\ site = RunPages
    /\ InitCommon

\* ----------------------------------------- process_excel_file: the start

\* pd.read_excel raises: "Error reading Excel file", return.
ReadExcelFails ==
    /\ pc = "read_excel"
    /\ pc' = "not_run"
    /\ UNCHANGED <<input, batch, call, world, hist>>

\* The column check, then the initialisation of the counters.
ColumnCheck ==
    /\ pc = "read_excel"
    /\ pc' = IF \E i \in 1..Len(sheet.cols) : sheet.cols[i] = URLCol
             THEN "loop" ELSE "not_run"
    /\ UNCHANGED <<input, batch, call, world, hist>>

\* "for idx, (_, row) in enumerate(df.iterrows())": no row left.
LoopEnd ==
    /\ pc = "loop"
    /\ idx >= total_rows
    /\ pc' = "final_save"
    /\ UNCHANGED <<input, batch, call, world, hist>>

\* "if pd.isna(url) or url == '': continue"
SkipRow ==
    /\ pc = "loop"
    /\ idx < total_rows
    /\ url = NaN \/ url = EmptyText
    /\ idx' = idx + 1
    /\ UNCHANGED <<input, pc, all_rows, success_count, processed_count, call, world, hist>>

\* The call extract_product_data(url): "driver = None; profile_path = None".
CallExtract ==
    /\ pc = "loop"
    /\ idx < total_rows
    /\ ~(url = NaN \/ url = EmptyText)
    /\ pc' = "mkdtemp"
    /\ driver' = FALSE
    /\ profile_path' = FALSE
    /\ product_rows' = None
    /\ scroll_i' = 0
    /\ soup' = None
    /\ fitments' = <<>>
    /\ browser_up' = FALSE
    /\ profile_dir' = FALSE
    /\ failedAt' = "none"
    /\ swallowed' = 0
    /\ quits' = 0
    /\ attempted' = Append(attempted, idx)
    /\ stages' = <<>>
    /\ UNCHANGED <<input, batch, browsers, profiles, file, initFailed, progress_writes,
                   final_writes, slept>>

\* ------------------------------------------- create_driver_with_profile

\* An exception raised inside the try block of extract_product_data at
\* stage st: "except Exception: return None", then the finally block.
Raise(st) ==
    /\ failedAt' = st
    /\ product_rows' = None
    /\ pc' = "finally_quit"

\* tempfile.mkdtemp creates the profile directory, or raises.
Mkdtemp ==
    /\ pc = "mkdtemp"
    /\ \/ /\ profile_dir' = TRUE
          /\ profiles' = profiles + 1
          /\ pc' = "chrome"
          /\ UNCHANGED <<product_rows, failedAt, initFailed>>
       \/ /\ Raise("create")
          /\ initFailed' = TRUE
          /\ UNCHANGED <<profile_dir, profiles>>
    /\ UNCHANGED <<input, batch, driver, profile_path, scroll_i, soup, fitments, browser_up,
                   browsers, file, swallowed, quits, progress_writes, final_writes, slept,
                   attempted, stages>>

\* StartChrome called outside the try block: its exception ends the run.
StartChrome_Unguarded ==
    /\ pc = "chrome"
    /\ \/ /\ browser_up' = TRUE
          /\ browsers' = browsers + 1
          /\ driver' = TRUE
          /\ profile_path' = TRUE
          /\ pc' = "get"
          /\ UNCHANGED <<product_rows, failedAt, initFailed>>
       \/ /\ failedAt' = "create"
          /\ pc' = "crashed"
          /\ initFailed' = TRUE
          /\ UNCHANGED <<product_rows, browser_up, browsers, driver, profile_path>>
    /\ UNCHANGED <<input, batch, scroll_i, soup, fitments, profile_dir, profiles, file,
                   swallowed, quits, progress_writes, final_writes, slept, attempted, stages>>

\* ChromeDriverManager().install() and webdriver.Chrome(...): the browser
\* starts and (driver, profile_path) is returned and assigned, or one of them
\* raises and the two locals of extract_product_data stay None.
StartChrome ==
    /\ pc = "chrome"
    /\ \/ /\ browser_up' = TRUE
          /\ browsers' = browsers + 1
          /\ driver' = TRUE
          /\ profile_path' = TRUE
          /\ pc' = "get"
          /\ UNCHANGED <<product_rows, failedAt, initFailed>>
       \/ /\ Raise("create")
          /\ initFailed' = TRUE
          /\ UNCHANGED <<browser_up, browsers, driver, profile_path>>
    /\ UNCHANGED <<input, batch, scroll_i, soup, fitments, profile_dir, profiles, file,
                   swallowed, quits, progress_writes, final_writes, slept, attempted, stages>>

\* -------------------------------------- extract_product_data: try block

\* A step of the try block that is not wrapped in a try of its own: it
\* succeeds and control moves to nxt, or it raises to "except Exception".
HardStep(here, nxt) ==
    /\ pc = here
    /\ \/ /\ pc' = nxt
          /\ UNCHANGED <<product_rows, failedAt>>
       \/ Raise(here)
    /\ stages' = Append(stages, here)
    /\ UNCHANGED <<input, batch, driver, profile_path, scroll_i, soup, fitments, world,
                   swallowed, quits, initFailed, progress_writes, final_writes, slept,
                   attempted>>

\* A reveal stage wrapped in "try: ... except Exception as e: print(...)":
\* whether it succeeds or fails, control moves to nxt.
BestEffortStage(here, nxt) ==
    /\ pc = here
    /\ pc' = nxt
    /\ \/ UNCHANGED swallowed
       \/ swallowed' = swallowed + 1
    /\ stages' = Append(stages, here)
    /\ UNCHANGED <<input, batch, call, world, failedAt, quits, initFailed, progress_writes,
                   final_writes, slept, attempted>>

\* driver.get(url)
Navigate == HardStep("get", "title_wait")

\* WebDriverWait(driver, 20).until(presence of "product-title")
TitleWait == HardStep("title_wait", "fitment_tab")

\* Wait for the fitment tab to be clickable, scroll to it, click it.
FitmentTabClick == BestEffortStage("fitment_tab", "fitment_section")

\* Wait for the fitment section, scroll it into view.
FitmentSectionScroll == BestEffortStage("fitment_section", "fitment_table")

\* FitmentTableWait going on to the scroll loop, past the expander click.
FitmentTableWait_SkipsExpander == BestEffortStage("fitment_table", "scroll")

\* Wait for table.fitment-table to be present.
FitmentTableWait == BestEffortStage("fitment_table", "expander")

\* Wait for the fitment expander to be clickable, click it.
ExpanderClick == BestEffortStage("expander", "scroll")

\* One pass of "for i in range(8): driver.execute_script(scrollBy)": the
\* loop is not inside a try of its own.
ScrollStep ==
    /\ pc = "scroll"
    /\ scroll_i < ScrollSteps
    /\ \/ /\ scroll_i' = scroll_i + 1
          /\ UNCHANGED <<pc, product_rows, failedAt>>
       \/ /\ Raise("scroll")
          /\ UNCHANGED scroll_i
    /\ stages' = Append(stages, "scroll")
    /\ UNCHANGED <<input, batch, driver, profile_path, soup, fitments, world, swallowed,
                   quits, initFailed, progress_writes, final_writes, slept, attempted>>

ScrollDone ==
    /\ pc = "scroll"
    /\ scroll_i >= ScrollSteps
    /\ pc' = "row_poll"
    /\ UNCHANGED <<input, batch, call, world, hist>>

\* WebDriverWait(driver, 40).until(at least one tr.fitment-row)
FitmentRowPoll == BestEffortStage("row_poll", "page_source")

\* soup = BeautifulSoup(driver.page_source, 'html.parser')
PageSource ==
    /\ pc = "page_source"
    /\ \/ /\ \E page \in site : soup' = Some(page)
          /\ pc' = "parse"
          /\ UNCHANGED <<product_rows, failedAt>>
       \/ /\ Raise("page_source")
          /\ UNCHANGED soup
    /\ stages' = Append(stages, "page_source")
    /\ UNCHANGED <<input, batch, driver, profile_path, scroll_i, fitments, world, swallowed,
                   quits, initFailed, progress_writes, final_writes, slept, attempted>>

\* Lines 233-323: data, fitments, filtered_data, result_rows; "return
\* result_rows", or an exception of the parsing code.
ParseSnapshot ==
    /\ pc = "parse"
    /\ \/ /\ fitments' = extract_fitment_data(Get(soup))
          /\ product_rows' = Some(ParsePage(Get(soup)))
          /\ pc' = "finally_quit"
          /\ UNCHANGED failedAt
       \/ /\ Raise("parse")
          /\ UNCHANGED fitments
    /\ UNCHANGED <<input, batch, driver, profile_path, scroll_i, soup, world, swallowed,
                   quits, initFailed, progress_writes, final_writes, slept, attempted, stages>>

\* ----------------------------------- extract_product_data: finally block

\* A finally block that quits only when the try block returned rows.
FinallyQuit_OnlyOnSuccess ==
    /\ pc = "finally_quit"
    /\ IF driver /\ failedAt = "none"
       THEN /\ quits' = quits + 1
            /\ browser_up' = FALSE
            /\ browsers' = browsers - 1
       ELSE UNCHANGED <<quits, browser_up, browsers>>
    /\ pc' = "finally_cleanup"
    /\ UNCHANGED <<input, batch, call, profile_dir, profiles, file, failedAt, swallowed,
                   initFailed, progress_writes, final_writes, slept, attempted, stages>>

\* A finally block that forgets driver.quit().
FinallyQuit_Forgotten ==
    /\ pc = "finally_quit"
    /\ pc' = "finally_cleanup"
    /\ UNCHANGED <<input, batch, call, world, hist>>

\* "if driver is not None: driver.quit()".  quit() ends the browser, or it
\* raises: the exception leaves the finally block, so cleanup_profile is not
\* reached and the exception replaces the return value; process_excel_file
\* has no handler around the call, so the run ends with it.
FinallyQuit ==
    /\ pc = "finally_quit"
    /\ \/ /\ ~driver
          /\ pc' = "finally_cleanup"
          /\ UNCHANGED <<quits, browser_up, browsers>>
       \/ /\ driver
          /\ quits' = quits + 1
          /\ browser_up' = FALSE
          /\ browsers' = browsers - 1
          /\ pc' = "finally_cleanup"
       \/ /\ driver
          /\ quits' = quits + 1
          /\ pc' = "crashed"
          /\ \/ UNCHANGED <<browser_up, browsers>>
             \/ /\ browser_up' = FALSE
                /\ browsers' = browsers - 1
    /\ UNCHANGED <<input, batch, call, profile_dir, profiles, file, failedAt, swallowed,
                   initFailed, progress_writes, final_writes, slept, attempted, stages>>

\* shutil.rmtree(profile_path, ignore_errors=True): the directory is removed,
\* or an error is ignored and it stays; nothing is raised.
cleanup_profile ==
    \/ /\ profile_dir' = FALSE
       /\ profiles' = profiles - 1
    \/ UNCHANGED <<profile_dir, profiles>>

\* "if profile_path is not None: cleanup_profile(profile_path)", then the
\* return to process_excel_file.
FinallyCleanup ==
    /\ pc = "finally_cleanup"
    /\ IF profile_path THEN cleanup_profile ELSE UNCHANGED <<profile_dir, profiles>>
    /\ pc' = "after_extract"
    /\ UNCHANGED <<input, batch, call, browser_up, browsers, file, hist>>

\* ------------------------------------ process_excel_file: after the call

\* "if product_rows:" is false for None and for an empty list.
Truthy(rows) == rows # None /\ Get(rows) # <<>>

\* AfterExtract putting the new rows in front of the accumulated rows.
AfterExtract_Prepends ==
    /\ pc = "after_extract"
    /\ IF Truthy(product_rows)
       THEN /\ all_rows' = MergeRows(Get(product_rows), original_columns, row) \o all_rows
            /\ success_count' = success_count + 1
       ELSE UNCHANGED <<all_rows, success_count>>
    /\ processed_count' = processed_count + 1
    /\ pc' = "save_progress"
    /\ UNCHANGED <<input, idx, call, world, hist>>

\* AfterExtract counting a URL as a success whatever the call returned.
AfterExtract_CountsFailures ==
    /\ pc = "after_extract"
    /\ IF Truthy(product_rows)
       THEN all_rows' = all_rows \o MergeRows(Get(product_rows), original_columns, row)
       ELSE UNCHANGED all_rows
    /\ success_count' = success_count + 1
    /\ processed_count' = processed_count + 1
    /\ pc' = "save_progress"
    /\ UNCHANGED <<input, idx, call, world, hist>>

\* Lines 371-383: merge the input row into each returned row, accumulate,
\* count the success; count the URL as processed.
AfterExtract ==
    /\ pc = "after_extract"
    /\ IF Truthy(product_rows)
       THEN /\ all_rows' = all_rows \o MergeRows(Get(product_rows), original_columns, row)
            /\ success_count' = success_count + 1
       ELSE UNCHANGED <<all_rows, success_count>>
    /\ processed_count' = processed_count + 1
    /\ pc' = "save_progress"
    /\ UNCHANGED <<input, idx, call, world, hist>>

\* "if success_count % 10 == 0"
SaveIsDue == success_count % SaveEvery = 0

\* ToExcel appending to the file instead of overwriting it.
ToExcel_Appends ==
    \/ file' = Some((IF file = None THEN <<>> ELSE Get(file)) \o all_rows)
    \/ UNCHANGED file

\* pd.DataFrame(all_rows).to_excel(output_file): the file is overwritten with
\* every accumulated row, or the write raises and the handler prints.
ToExcel ==
    \/ file' = Some(all_rows)
    \/ UNCHANGED file

\* SaveProgress without its try/except: a failed write ends the run.
SaveProgress_Unhandled ==
    /\ pc = "save_progress"
    /\ IF SaveIsDue
       THEN /\ progress_writes' = progress_writes + 1
            /\ \/ file' = Some(all_rows) /\ pc' = "delay"
               \/ UNCHANGED file /\ pc' = "crashed"
       ELSE UNCHANGED <<file, progress_writes>> /\ pc' = "delay"
    /\ UNCHANGED <<input, batch, call, browser_up, profile_dir, browsers, profiles,
                   failedAt, swallowed, quits, initFailed, final_writes, slept, attempted, stages>>

\* Lines 385-392: the in-loop save.
SaveProgress ==
    /\ pc = "save_progress"
    /\ IF SaveIsDue
       THEN /\ ToExcel
            /\ progress_writes' = progress_writes + 1
       ELSE UNCHANGED <<file, progress_writes>>
    /\ pc' = "delay"
    /\ UNCHANGED <<input, batch, call, browser_up, profile_dir, browsers, profiles,
                   failedAt, swallowed, quits, initFailed, final_writes, slept, attempted, stages>>

\* "if idx < total_rows - 1"
DelayIsDue == idx < total_rows - 1

\* Lines 394-398: the rate-limit sleep, then the next iteration.
Delay ==
    /\ pc = "delay"
    /\ slept' = IF DelayIsDue THEN slept \cup {idx} ELSE slept
    /\ idx' = idx + 1
    /\ pc' = "loop"
    /\ UNCHANGED <<input, all_rows, success_count, processed_count, call, world, failedAt,
                   swallowed, quits, initFailed, progress_writes, final_writes, attempted, stages>>

\* The final save without its "if all_rows:" test.
FinalSaveIsDue_Always == TRUE

\* "if all_rows:" of the final save
FinalSaveIsDue == all_rows # <<>>

\* Lines 400-410: the final save.
FinalSave ==
    /\ pc = "final_save"
    /\ IF FinalSaveIsDue
       THEN /\ ToExcel
            /\ final_writes' = final_writes + 1
       ELSE UNCHANGED <<file, final_writes>>
    /\ pc' = "done"
    /\ UNCHANGED <<input, batch, call, browser_up, profile_dir, browsers, profiles,
                   failedAt, swallowed, quits, initFailed, progress_writes, slept, attempted, stages>>

Next ==
    \/ ReadExcelFails
    \/ ColumnCheck
    \/ LoopEnd
    \/ SkipRow
    \/ CallExtract
    \/ Mkdtemp
    \/ StartChrome
    \/ Navigate
    \/ TitleWait
    \/ FitmentTabClick
    \/ FitmentSectionScroll
    \/ FitmentTableWait
    \/ ExpanderClick
    \/ ScrollStep
    \/ ScrollDone
    \/ FitmentRowPoll
    \/ PageSource
    \/ ParseSnapshot
    \/ FinallyQuit
    \/ FinallyCleanup
    \/ AfterExtract
    \/ SaveProgress
    \/ Delay
    \/ FinalSave

Spec == Init /\ [][Next]_vars

\* ------------------------------------------------ parsing specification

\* The steps of the try block up to the snapshot, in the order of the code.
StagesBeforeParse ==
    <<"get", "title_wait", "fitment_tab", "fitment_section", "fitment_table", "expander">>
    \o [i \in 1..ScrollSteps |-> "scroll"] \o <<"row_poll", "page_source">>

\* extract_product_data of the only URL of a one-row table, at line 233: the
\* session is open, the reveal sequence has run and the snapshot, the one page
\* of the site and any of ParsePages, has just been read.
InitParse ==
    /\ sheet = [cols |-> FullColumns, rows |-> <<InputRow(T("u1"), T("A"))>>]
    /\ soup \in {Some(page) : page \in ParsePages}
    /\ site = {Get(soup)}
    /\ pc = "parse"
    /\ idx = 0
    /\ all_rows = <<>>
    /\ success_count = 0
    /\ processed_count = 0
    /\ driver = TRUE
    /\ profile_path = TRUE
    /\ product_rows = None
    /\ scroll_i = ScrollSteps
    /\ fitments = <<>>
    /\ browser_up = TRUE
    /\ profile_dir = TRUE
    /\ browsers = 1
    /\ profiles = 1
    /\ file = None
    /\ failedAt = "none"
    /\ swallowed = 0
    /\ quits = 0
    /\ initFailed = FALSE
    /\ progress_writes = 0
    /\ final_writes = 0
    /\ slept = {}
    /\ attempted = <<0>>
    /\ stages = StagesBeforeParse

SpecParse == InitParse /\ [][ParseSnapshot]_vars

\* --------------------------------------------- checkpoint specification

\* A table long enough for a checkpoint with rows in it: the second row has no
\* url, the last row is another product, the other rows are the same product.
BatchSheet ==
    [ cols |-> FullColumns,
      rows |-> [i \in 1..BatchRows |->
                  IF i = 2 THEN InputRow(NaN, T("A"))
                  ELSE IF i = BatchRows THEN InputRow(T("u2"), T("B"))
                  ELSE InputRow(T("u1"), T("A"))] ]

\* process_excel_file on BatchSheet, every URL rendering to BasePage.
InitBatch ==
    /\ sheet = BatchSheet
    /\ site = {BasePage}
    /\ InitCommon

SpecBatch == InitBatch /\ [][Next]_vars

\* =============================================================== claims

\* The rows with a url, i.e. those passed to extract_product_data.
HasUrl(i) == sheet.rows[i + 1][URLCol] # NaN /\ sheet.rows[i + 1][URLCol] # EmptyText

InSeq(x, sq) == \E j \in 1..Len(sq) : sq[j] = x

\* extract_product_data has ended: it returned, or an exception left it.
CallEnded == pc \in {"after_extract", "crashed"}

\* C1 (as claimed): after the save step of every iteration, the number of
\* in-loop writes so far equals the number of positive multiples of 10 the
\* success count has reached: one write per multiple, none at 0 successes,
\* none after an iteration that did not change the count.
C1_ProgressWriteOnlyAtMultiplesOfTen ==
    pc = "delay" => progress_writes = success_count \div SaveEvery

\* C2 (as claimed): no exception leaves the per-URL iteration, and a run that
\* ends has passed every row with a url to extract_product_data.
C2_NoFailureHaltsTheBatch ==
    /\ pc # "crashed"
    /\ pc = "done" => \A i \in 0..(total_rows - 1) : HasUrl(i) => InSeq(i, attempted)

\* C3 (as claimed): when extract_product_data ends, by return or by
\* exception, the browser it started is gone and the profile directory it
\* created is deleted.
C3_SessionDisposedOnEveryPath ==
    CallEnded => ~browser_up /\ ~profile_dir

\* C4: driver.quit() is never executed twice in one call, and when the call
\* has ended it has been executed exactly once if the session was opened
\* (and not at all if it was not).
C4_QuitExactlyOnce ==
    /\ quits <= 1
    /\ CallEnded => quits = (IF driver THEN 1 ELSE 0)

\* A call whose session was opened and which failed in the scroll loop has
\* ended with one quit.
C4_Witness ==
    pc = "after_extract" /\ driver /\ failedAt = "scroll" /\ quits = 1

\* C5 (as claimed): every run that passes the column check and reaches its
\* end has executed the final write.
C5_FinalWriteUnconditional ==
    pc = "done" => final_writes = 1

\* C5 (amended): the final write is executed at most once, only by the step
\* after the loop, and a run that reaches its end has executed it exactly
\* when the accumulated rows are not empty.
C5_FinalWriteIffRows ==
    /\ final_writes <= 1
    /\ pc # "done" => final_writes = 0
    /\ pc = "done" => (final_writes = 1 <=> all_rows # <<>>)

\* A run that attempted a URL, accumulated no row and ended without a final
\* write.
C5_Witness ==
    pc = "done" /\ attempted # <<>> /\ all_rows = <<>> /\ final_writes = 0

\* C6 (as claimed): after a call that could not open its session, no
\* further call of extract_product_data begins.
C6_DriverInitErrorIsFatal ==
    ~(initFailed /\ pc = "mkdtemp")

\* C6 (amended): a call that could not open its session never ends the run:
\* it returns None, and the step after it adds no row, leaves the success
\* count, counts the URL as processed and goes on to the save step and the
\* next row.
C6_DriverInitErrorIsSkipped ==
    /\ [](failedAt = "create" => pc # "crashed" /\ product_rows = None)
    /\ [][(pc = "after_extract" /\ failedAt = "create") =>
             /\ pc' = "save_progress"
             /\ all_rows' = all_rows
             /\ success_count' = success_count
             /\ processed_count' = processed_count + 1]_vars

\* A second URL whose session is opened after the first URL's session could
\* not be.
C6_Witness ==
    initFailed /\ Len(attempted) = 2 /\ pc = "get" /\ processed_count = 1

RevealStages ==
    {"title_wait", "fitment_tab", "fitment_section", "fitment_table", "expander", "scroll",
     "row_poll"}

\* C7 (as claimed): the title wait is the only reveal stage whose failure
\* makes the call fail.
C7_OnlyTitleWaitAborts ==
    failedAt \in RevealStages => failedAt = "title_wait"

C9_FanOutPerFitment ==
    product_rows # None =>
        LET rows == Get(product_rows)
            fit == extract_fitment_data(Get(soup))
            prod == FilterAllowed(ProductData(Get(soup)))
        IN /\ Len(rows) = (IF Len(fit) >= 1 THEN Len(fit) ELSE 1)
           /\ \A i \in 1..Len(rows) :
                /\ DOMAIN rows[i] = (DOMAIN prod) \cup FitmentKeys
                /\ \A k \in (DOMAIN prod) \ FitmentKeys : rows[i][k] = prod[k]
                /\ \A k \in FitmentKeys :
                     rows[i][k] = (IF Len(fit) >= 1 THEN fit[i][k] ELSE EmptyText)

\* A snapshot with two valid fitment records (and a dropped one) gave two rows.
C9_Witness ==
    /\ product_rows # None
    /\ Len(Get(product_rows)) = 2
    /\ Len(FitmentRowsOf(Get(Get(soup).table))) = 3

\* C10: after a successful URL, each row just accumulated keeps the
\* extracted value under every key the returned row had, and has every
\* other input column with the input row's value.
C10_ExtractedFieldsWin ==
    (pc = "save_progress" /\ Truthy(product_rows)) =>
        LET prs == Get(product_rows)
            n == Len(prs)
            cols == {original_columns[j] : j \in 1..Len(original_columns)}
        IN /\ Len(all_rows) >= n
           /\ \A i \in 1..n :
                LET merged == all_rows[Len(all_rows) - n + i] IN
                /\ DOMAIN merged = (DOMAIN prs[i]) \cup cols
                /\ \A k \in DOMAIN prs[i] : merged[k] = prs[i][k]
                /\ \A c \in cols \ DOMAIN prs[i] : merged[c] = row[c]

\* A placeholder row was merged with an input row that has a "Year" and a
\* "SKU" column: the empty Year and the extracted SKU are kept, "sku" is
\* copied.
C10_Witness ==
    /\ pc = "save_progress"
    /\ Truthy(product_rows)
    /\ all_rows[Len(all_rows)][KYear] = EmptyText
    /\ all_rows[Len(all_rows)][T("SKU")] = T("ABC")
    /\ all_rows[Len(all_rows)][T("sku")] = row[T("sku")]

\* Some input row after row i has a url, i.e. another URL is processed after it.
UrlFollows(i) == \E j \in (i + 1)..(total_rows - 1) : HasUrl(j)

\* C11 (as claimed): the rate-limit sleep runs only after a processed URL
\* that is followed by another URL to process, and a run that has ended has
\* slept after every such URL; no sleep follows the last URL processed.
C11_SleepOnlyBetweenUrls ==
    /\ \A i \in slept : UrlFollows(i)
    /\ pc = "done" =>
         \A k \in 1..Len(attempted) : UrlFollows(attempted[k]) => attempted[k] \in slept


\* The snapshot has been parsed: extract_product_data reached line 323.
Parsed == soup # None /\ product_rows # None /\ failedAt = "none"

\* The rows extract_fitment_data iterates over in the parsed snapshot.
TableRows == FitmentRowsOf(Get(Get(soup).table))

\* A cell that is present and holds something other than whitespace.
HasText(td) == td # None /\ \E i \in 1..Len(Get(td)) : ~IsSpace(Get(td)[i])

\* The text a cell contributes to its fitment: trimmed, empty when missing.
Trimmed(td) == IF HasText(td) THEN Strip(Get(td)) ELSE EmptyText

\* Year, make and model are all non-empty after trimming.
Kept(r) == HasText(r.year) /\ HasText(r.make) /\ HasText(r.model)

KeptIdx == {i \in 1..Len(TableRows) : Kept(TableRows[i])}

\* The position in the result of the i-th table row, if it is kept.
Rank(i) == Cardinality({j \in KeptIdx : j <= i})

\* C12: extract_fitment_data keeps a table row exactly when its year, make and
\* model are non-empty after trimming (missing trim or engine cells give empty
\* fields), keeps the rows in table order, and a dropped row changes nothing
\* about the fitments of the other rows.
C12_RowKeptIffYearMakeModel ==
    (Parsed /\ Get(soup).table # None) =>
        /\ Len(fitments) = Cardinality(KeptIdx)
        /\ \A i \in KeptIdx :
             /\ fitments[Rank(i)][KYear] = Trimmed(TableRows[i].year)
             /\ fitments[Rank(i)][KMake] = Trimmed(TableRows[i].make)
             /\ fitments[Rank(i)][KModel] = Trimmed(TableRows[i].model)
             /\ fitments[Rank(i)][KTrim] = Trimmed(TableRows[i].trim)
             /\ fitments[Rank(i)][KEngine] = Trimmed(TableRows[i].engine)

\* C12 witness: a row with a blank cell is dropped and the row after it, which
\* has no trim and no engine cell, is the only fitment.
C12_Witness ==
    /\ Parsed
    /\ Get(soup).table # None
    /\ Len(TableRows) = 2
    /\ ~Kept(TableRows[1])
    /\ Kept(TableRows[2])
    /\ TableRows[2].trim = None
    /\ Len(fitments) = 1
    /\ fitments[1][KYear] = T("2020")
    /\ fitments[1][KTrim] = EmptyText


\* C13: when the snapshot has no fitment table, extract_fitment_data returns
\* the empty sequence and extract_product_data returns one row, the product's
\* fields with the five fitment fields empty, instead of failing.
C13_NoTableGivesPlaceholderRow ==
    (Parsed /\ Get(soup).table = None) =>
        /\ fitments = <<>>
        /\ Len(Get(product_rows)) = 1
        /\ \A k \in FitmentKeys : Get(product_rows)[1][k] = EmptyText
        /\ Get(product_rows)[1][KTitle] = Trimmed(Get(soup).title)
        /\ Truthy(product_rows)

\* C13 witness: a snapshot without a table has been parsed into one row that
\* carries the product title and an empty year.
C13_Witness ==
    /\ Parsed
    /\ Get(soup).table = None
    /\ Len(Get(product_rows)) = 1
    /\ Get(product_rows)[1][KTitle] = T("Wheel")
    /\ Get(product_rows)[1][KYear] = EmptyText
    /\ pc = "finally_quit"


\* The label/value list items of the parsed snapshot, in document order.
Items == Get(soup).items

\* The item passes both "continue" tests of the field-list loop.
ItemKept(j) == ~ItemIsSkipped(Items[j])

\* Items i and j are stored and have the same label.
SameLabel(i, j) == ItemKept(i) /\ ItemKept(j) /\ LabelOf(Items[i]) = LabelOf(Items[j])

\* Item j is the Occ(j)-th occurrence of its label.
Occ(j) == Cardinality({i \in 1..j : SameLabel(i, j)})

\* The label of item j occurs more than once.
Repeated(j) == \E i \in 1..Len(Items) : i # j /\ SameLabel(i, j)

ItemValue(j) == Strip(Get(Items[j].value))

\* The value v appears in the output row r under some key.
InRow(r, v) == \E k \in DOMAIN r : r[k] = v

\* The key item j is stored under: its label, suffixed from the second
\* occurrence on.
StoredKey(j) ==
    IF Occ(j) = 1 THEN LabelOf(Items[j])
    ELSE LabelOf(Items[j]) \o <<" ", NumText(Occ(j))>>

\* The keys the snapshot's own elements are stored under after the list items.
ElementKeys ==
    (IF Get(soup).description # None THEN {KDescription} ELSE {})
    \cup (IF Get(soup).notes # <<>> THEN {KNotes} ELSE {})
    \cup (IF Get(soup).msrp # None THEN {KMSRP} ELSE {})
    \cup (IF Get(soup).sale # None THEN {KSalePrice} ELSE {})

\* Something is stored under the key of item j after item j.
Overwritten(j) ==
    \/ StoredKey(j) \in ElementKeys
    \/ \E i \in (j + 1)..Len(Items) : ItemKept(i) /\ StoredKey(i) = StoredKey(j)

\* C14 (as claimed): when an allow-listed label occurs more than once among the
\* list items, every output row holds the first occurrence's value under the
\* label and the value of no later occurrence under any key.
C14_OnlyFirstOccurrenceKept ==
    Parsed =>
        \A n \in 1..Len(Get(product_rows)) : \A j \in 1..Len(Items) :
            (ItemKept(j) /\ Occ(j) = 1 /\ Repeated(j) /\ LabelOf(Items[j]) \in allowed_keys) =>
                /\ Get(product_rows)[n][LabelOf(Items[j])] = ItemValue(j)
                /\ \A i \in (j + 1)..Len(Items) :
                     SameLabel(i, j) => ~InRow(Get(product_rows)[n], ItemValue(i))

\* C14 (amended): the value of a second or later occurrence of a label appears
\* in an output row only under the label's suffixed key and only if that key
\* is allow-listed; the label's own key holds the first occurrence's value
\* unless something was stored under that key afterwards.
C14_LaterOccurrenceOnlyUnderAllowedSuffix ==
    Parsed =>
        \A n \in 1..Len(Get(product_rows)) : \A j \in 1..Len(Items) :
            ItemKept(j) =>
                /\ (Occ(j) > 1 /\ InRow(Get(product_rows)[n], ItemValue(j))) =>
                     /\ StoredKey(j) \in allowed_keys
                     /\ Get(product_rows)[n][StoredKey(j)] = ItemValue(j)
                /\ (Occ(j) > 1 /\ StoredKey(j) \notin allowed_keys) =>
                     ~InRow(Get(product_rows)[n], ItemValue(j))
                /\ (Occ(j) = 1 /\ Repeated(j) /\ LabelOf(Items[j]) \in allowed_keys
                      /\ ~Overwritten(j)) =>
                     Get(product_rows)[n][LabelOf(Items[j])] = ItemValue(j)

\* C14 witness: three items labelled "Description" and no description block;
\* the row has the first value under "Description", the second under
\* "Description 2" and the third nowhere.
C14_Witness ==
    /\ Parsed
    /\ Len(Items) = 3
    /\ \A j \in 1..3 : ItemKept(j) /\ LabelOf(Items[j]) = KDescription
    /\ Get(soup).description = None
    /\ Get(product_rows)[1][KDescription] = T("v1")
    /\ Get(product_rows)[1][<<"Description", " ", "2">>] = T("v2")
    /\ ~InRow(Get(product_rows)[1], T("v3"))


\* s is an initial segment of t.
IsPrefix(s, t) == Len(s) <= Len(t) /\ SubSeq(t, 1, Len(s)) = s

\* C15: the content of the output file is always a prefix of the accumulated
\* rows; a write replaces the file by all the accumulated rows; rows are only
\* added at the end of the accumulated rows, by the URL being processed and
\* without touching the file, so the rows missing from the file come from URLs
\* processed after the last write.
C15_FileIsPrefixOfAllRows ==
    /\ [](file # None => IsPrefix(Get(file), all_rows))
    /\ [][ /\ file' # file => (file' = Some(all_rows') /\ all_rows' = all_rows)
           /\ all_rows' # all_rows =>
                /\ file' = file
                /\ pc = "after_extract"
                /\ IsPrefix(all_rows, all_rows')
                /\ \A k \in (Len(all_rows) + 1)..Len(all_rows') :
                     all_rows'[k][URLCol] = url ]_vars

\* C15 witness: the checkpoint after the tenth success wrote ten rows and the
\* next URL has added an eleventh row that is not in the file.
C15_Witness ==
    /\ file # None
    /\ Len(Get(file)) = SaveEvery
    /\ Len(all_rows) = SaveEvery + 1
    /\ all_rows[SaveEvery + 1][URLCol] = T("u2")
    /\ IsPrefix(Get(file), all_rows)


\* The statement about to run is the checkpoint save or the final save.
AtSave == pc \in {"save_progress", "final_save"}

\* C16: a save step, whether its write succeeds or fails, leaves the
\* accumulated rows, the counters and the loop position unchanged and goes on
\* to the delay of the loop (checkpoint) or to the normal end of the run (final
\* save); a failed write leaves the file as it was and a successful one, now or
\* later, holds every row accumulated at that moment.
C16_FailedWriteLosesNothing ==
    [][ AtSave =>
          /\ all_rows' = all_rows
          /\ success_count' = success_count
          /\ processed_count' = processed_count
          /\ idx' = idx
          /\ pc' = (IF pc = "save_progress" THEN "delay" ELSE "done")
          /\ file' = file \/ file' = Some(all_rows) ]_vars

\* C16 witness: the checkpoint write after the tenth success has failed; the
\* ten rows are still accumulated, the file does not hold them and the run is
\* at the delay before the next URL.
C16_Witness ==
    /\ pc = "delay"
    /\ progress_writes > 0
    /\ success_count = SaveEvery
    /\ Len(all_rows) = SaveEvery
    /\ file # Some(all_rows)
    /\ idx < total_rows - 1


\* The run specification with every enabled step eventually taken: each
\* statement and each bounded wait of the code returns or raises.
FairSpec == Spec /\ WF_vars(Next)

\* C17 (as claimed): every run ends at the end-of-run step after the last input
\* row (or at the early return of a table that cannot be read or has no url
\* column).
C17_RunReachesEndOfRun == <>(pc \in {"done", "not_run"})


\* C18: the steps of a call are attempted in the fixed order navigation, title
\* wait, fitment-tab click, fitment-section scroll, fitment-table wait, expander
\* click, 8 scroll steps, fitment-row poll, markup read; the markup is read
\* once, right after the row poll whatever its outcome, from a session that is
\* open and not yet disposed; in a call that did not abort the session is
\* disposed only after the read, and the session ends nowhere but in the
\* finally block.
C18_FixedStageOrder ==
    /\ [](IsPrefix(stages, StagesBeforeParse))
    /\ [](soup # None => stages = StagesBeforeParse)
    /\ [][ /\ (soup' # soup /\ soup' # None) =>
                /\ pc = "page_source"
                /\ soup = None
                /\ stages # <<>> /\ stages[Len(stages)] = "row_poll"
                /\ browser_up /\ quits = 0
           /\ (quits' > quits /\ failedAt = "none") => soup # None
           /\ (browser_up /\ ~browser_up') => pc = "finally_quit" ]_vars

\* C18 witness: every reveal stage timed out, the 8 scroll steps ran, the
\* markup has just been read and the session is still open.
C18_Witness ==
    /\ pc = "parse"
    /\ soup # None
    /\ swallowed = 5
    /\ scroll_i = ScrollSteps
    /\ stages = StagesBeforeParse
    /\ browser_up
    /\ quits = 0


\* Output row a carries the url and the sku of input row i.
FromInput(a, i) ==
    /\ HasUrl(i)
    /\ all_rows[a][URLCol] = sheet.rows[i + 1][URLCol]
    /\ all_rows[a][T("sku")] = sheet.rows[i + 1][T("sku")]

\* The loop is at an input row whose url is missing or empty.
AtSkippedRow == pc = "loop" /\ idx < total_rows /\ ~HasUrl(idx)

\* C19: input rows are handled in their original order, one after the other;
\* the accumulated rows are in the order of the input rows they come from, the
\* rows of one product in the order extract_product_data returned them; an
\* input row without a url only moves the loop on: no session, no output row,
\* no change of the processed or the success count.
C19_InputOrderKeptAndSkipsAreInert ==
    /\ [](\A k \in 1..Len(attempted) :
             /\ HasUrl(attempted[k])
             /\ k < Len(attempted) => attempted[k] < attempted[k + 1])
    /\ [](\A a, b \in 1..Len(all_rows) :
             a < b => \E i, j \in 0..(total_rows - 1) :
                         i <= j /\ FromInput(a, i) /\ FromInput(b, j))
    /\ [][ /\ idx' # idx => idx' = idx + 1
           /\ all_rows' # all_rows =>
                /\ Len(all_rows') = Len(all_rows) + Len(Get(product_rows))
                /\ SubSeq(all_rows', 1, Len(all_rows)) = all_rows
                /\ \A k \in 1..Len(Get(product_rows)) :
                     /\ all_rows'[Len(all_rows) + k][URLCol] = url
                     /\ \A f \in FitmentKeys :
                          all_rows'[Len(all_rows) + k][f] = Get(product_rows)[k][f]
           /\ AtSkippedRow =>
                /\ idx' = idx + 1
                /\ pc' = "loop"
                /\ UNCHANGED <<all_rows, success_count, processed_count, attempted,
                               browsers, profiles, browser_up, profile_dir, file>> ]_vars

\* C19 witness: a table of two URLs has been processed; the two fitment rows of
\* the first product come first, in table order, then the row of the second.
C19_Witness ==
    /\ pc = "done"
    /\ total_rows = 2
    /\ sheet.rows[1][URLCol] = T("u2")
    /\ sheet.rows[2][URLCol] = T("u1")
    /\ Len(all_rows) = 3
    /\ all_rows[1][URLCol] = T("u2") /\ all_rows[1][KMake] = T("Jeep")
    /\ all_rows[2][URLCol] = T("u2") /\ all_rows[2][KMake] = T("Ram")
    /\ all_rows[3][URLCol] = T("u1")


\* The input rows with a url that the loop has reached so far.
UrlRowsSeen ==
    {i \in 0..(total_rows - 1) : HasUrl(i) /\ (i < idx \/ (i = idx /\ pc # "loop"))}

\* C20: the success count is at most the processed count, which is at most the
\* number of input rows with a url reached so far; there are at least as many
\* accumulated rows as successes; a URL counted as a success adds at least one
\* row and a URL counted as a failure adds none.
C20_CountsAreOrdered ==
    /\ [](/\ success_count <= processed_count
          /\ Len(all_rows) >= success_count
          /\ pc \in {"read_excel", "not_run"} => processed_count = 0
          /\ pc \notin {"read_excel", "not_run"} =>
               /\ processed_count <= Cardinality(UrlRowsSeen)
               /\ Len(attempted) = Cardinality(UrlRowsSeen))
    /\ [][ /\ success_count' # success_count =>
                /\ success_count' = success_count + 1
                /\ processed_count' = processed_count + 1
                /\ Len(all_rows') > Len(all_rows)
           /\ (processed_count' # processed_count /\ success_count' = success_count) =>
                /\ processed_count' = processed_count + 1
                /\ all_rows' = all_rows
           /\ all_rows' # all_rows => success_count' # success_count ]_vars

\* C20 witness: of two URLs the first failed and the second gave two fitment
\* rows: two processed, one success, two rows.
C20_Witness ==
    /\ pc = "done"
    /\ Len(attempted) = 2
    /\ processed_count = 2
    /\ success_count = 1
    /\ Len(all_rows) = 2
    /\ all_rows[1][URLCol] = sheet.rows[2][URLCol]
    /\ sheet.rows[1][URLCol] # sheet.rows[2][URLCol]

====
